---- MODULE Spec2Model ----
(***************************************************************************)
(* Outstanding-Payment-Console: the ledger reconciliation engine           *)
(* (src/services/csvProcessor.ts) and the session mutation layer           *)
(* (src/App.tsx, src/components/PartyDetailView.tsx).                      *)
(*                                                                         *)
(* Amounts are integers counting thousandths of the currency unit, so that *)
(* round(), which keeps two decimals, is a real operation: it maps an      *)
(* amount to the nearest multiple of 10, halves upwards. The cells of the  *)
(* sheet carry whole amounts, except one that carries a third decimal.     *)
(* Texts that the code inspects character by character (bill numbers,      *)
(* party names) are sequences of one-character strings; texts that the     *)
(* code only parses as a whole (dates) are tokens.                         *)
(***************************************************************************)
EXTENDS Integers, Sequences, FiniteSets, TLC

\* ------------------------------------------------------------------ bounds
\* longest uploaded file, in rows, of the application life cycle
MaxRows == 3
\* largest running total of manual payments recorded on one bill
MaxManual == 400000
\* longest file, in rows, of the row-by-row parse
MaxParseRows == 4
\* most entries of an uploaded prefix guide
MaxPrefixes == 2
\* longest uploaded file, in rows, of the filtered views
MaxFilterRows == 3
\* longest uploaded file, in rows, of the uploads with external calls
MaxExternalRows == 3
\* longest uploaded file, in rows, of the uploads followed by cloud saves
MaxSaveRows == 2

\* ------------------------------------------------------------ helpers
Abs(x) == IF x < 0 THEN -x ELSE x

RECURSIVE SumSeq(_)
SumSeq(s) == IF s = <<>> THEN 0 ELSE Head(s) + SumSeq(Tail(s))

\* String.prototype.trim on a sequence of characters
RECURSIVE TrimLeft(_)
TrimLeft(s) == IF s # <<>> /\ Head(s) = " " THEN TrimLeft(Tail(s)) ELSE s

RECURSIVE TrimRight(_)
TrimRight(s) ==
    IF s # <<>> /\ s[Len(s)] = " " THEN TrimRight(SubSeq(s, 1, Len(s) - 1)) ELSE s

Trim(s) == TrimRight(TrimLeft(s))

\* ------------------------------------------------ currency and date cells
\* A currency cell of the sheet: either nothing numeric (num = NoNumber:
\* empty or non-numeric text) or a magnitude with the markers the code
\* looks for: "Cr", "Dr", enclosing parentheses, a minus sign.
NoNumber == -1

Txt(n)      == [num |-> n, cr |-> FALSE, dr |-> FALSE, parens |-> FALSE, minus |-> FALSE]
TxtCr(n)    == [Txt(n) EXCEPT !.cr = TRUE]
TxtDr(n)    == [Txt(n) EXCEPT !.dr = TRUE]
TxtParens(n) == [Txt(n) EXCEPT !.parens = TRUE]
TxtMinus(n) == [Txt(n) EXCEPT !.minus = TRUE]
EmptyCell   == Txt(NoNumber)

\* a whole amount of the currency unit, in thousandths
Rupees(n) == n * 1000

\* round: two decimals, halves upwards (Math.round is floor(x + 0.5))
round(num) == ((num + 5) \div 10) * 10

cleanCurrency(val) ==
    IF val.num = NoNumber THEN 0
    ELSE IF val.cr THEN -val.num
    ELSE IF val.dr THEN val.num
    ELSE IF val.parens THEN -val.num
    ELSE IF val.minus THEN -val.num
    ELSE val.num

\* Date texts and the day number parseDate gives them (0: unparsable).

TrimDate(t) == IF t = " 01-Jan-24 " THEN "01-Jan-24" ELSE t

parseDate(dateStr) ==
    CASE dateStr = ""            -> 0
      [] dateStr = "01-Jan-24"   -> 1
      [] dateStr = " 01-Jan-24 " -> 1
      [] dateStr = "01-Feb-24"   -> 32
      [] dateStr = "01-Mar-24"   -> 61
      [] OTHER                   -> 0

\* parseInt(String(row["Days"] || "0").replace(/,/g, '')) || 0
\* (a Days cell is a number, or NoNumber for text parseInt cannot read)
parseDays(t) == IF t = NoNumber THEN 0 ELSE t

\* ------------------------------------------------------------ finalizeParty
\* comparator of the sort: parsed date, then original index
SortsBefore(bills, i, j) ==
    LET dateA == parseDate(bills[i].billDate)
        dateB == parseDate(bills[j].billDate)
    IN  IF dateA # dateB THEN dateA < dateB ELSE i < j

\* the indices S of bills, in the order the sort leaves them
RECURSIVE SortIdx(_, _)
SortIdx(bills, S) ==
    IF S = {} THEN <<>>
    ELSE LET m == CHOOSE i \in S : \A j \in S \ {i} : SortsBefore(bills, i, j)
         IN  <<m>> \o SortIdx(bills, S \ {m})

positiveBills(bills) ==
    LET idx == SortIdx(bills, {i \in DOMAIN bills : bills[i].billAmt > 0})
    IN  [k \in DOMAIN idx |-> bills[idx[k]]]

NegativeMagnitude(bills) ==
    SumSeq([i \in DOMAIN bills |->
              IF bills[i].billAmt < 0 THEN Abs(bills[i].billAmt) ELSE 0])

\* the loop over the sorted positive bills: [bills, credit] after it
RECURSIVE Allocate(_, _, _)
Allocate(sorted, availableCredit, adjustedBills) ==
    IF sorted = <<>> THEN [bills |-> adjustedBills, credit |-> availableCredit]
    ELSE LET bill == Head(sorted) IN
         IF availableCredit > 0
         THEN IF availableCredit >= bill.billAmt
              THEN Allocate(Tail(sorted), round(availableCredit - bill.billAmt),
                            adjustedBills)
              ELSE Allocate(Tail(sorted), 0,
                            Append(adjustedBills,
                                   [bill EXCEPT !.billAmt =
                                        round(bill.billAmt - availableCredit)]))
         ELSE Allocate(Tail(sorted), availableCredit, Append(adjustedBills, bill))

\* variant of finalizeParty: a negative header balance joins the credit pool
finalizeParty_balanceAsCredit(party) ==
    LET headerCredit == IF party.rawBalance < 0 THEN -party.rawBalance ELSE 0
        r == Allocate(positiveBills(party.bills),
                      round(NegativeMagnitude(party.bills) + headerCredit), <<>>)
        debit == round(SumSeq([i \in DOMAIN r.bills |-> r.bills[i].billAmt]))
    IN  [party EXCEPT !.bills = r.bills,
                      !.balanceDebit = debit,
                      !.balanceCredit = r.credit,
                      !.rawBalance = round(debit - r.credit)]

\* variant of finalizeParty: credit the party already holds joins the pool
finalizeParty_keepsCredit(party) ==
    LET r == Allocate(positiveBills(party.bills),
                      round(NegativeMagnitude(party.bills) + party.balanceCredit), <<>>)
        debit == round(SumSeq([i \in DOMAIN r.bills |-> r.bills[i].billAmt]))
    IN  [party EXCEPT !.bills = r.bills,
                      !.balanceDebit = debit,
                      !.balanceCredit = r.credit,
                      !.rawBalance = round(debit - r.credit)]

\* variant of finalizeParty: the credit pool is reported whole, consumed or not
finalizeParty_creditReported(party) ==
    LET r == Allocate(positiveBills(party.bills),
                      round(NegativeMagnitude(party.bills)), <<>>)
        debit == round(SumSeq([i \in DOMAIN r.bills |-> r.bills[i].billAmt]))
        credit == round(NegativeMagnitude(party.bills))
    IN  [party EXCEPT !.bills = r.bills,
                      !.balanceDebit = debit,
                      !.balanceCredit = credit,
                      !.rawBalance = round(debit - credit)]

finalizeParty(party) ==
    LET r == Allocate(positiveBills(party.bills),
                      round(NegativeMagnitude(party.bills)), <<>>)
        debit == round(SumSeq([i \in DOMAIN r.bills |-> r.bills[i].billAmt]))
    IN  [party EXCEPT !.bills = r.bills,
                      !.balanceDebit = debit,
                      !.balanceCredit = r.credit,
                      !.rawBalance = round(debit - r.credit)]

\* ------------------------------------------------------------ processRawData
\* A row of the sheet.
Row(partyName, billNo, billDate, billAmt, received, balance, days) ==
    [partyName |-> partyName, billNo |-> billNo, billDate |-> billDate,
     billAmt |-> billAmt, received |-> received, balance |-> balance,
     dueDate |-> "", days |-> days]

\* the accumulator of the forEach: the emitted parties and the open party
\* (a sequence of length 0 or 1 standing for "ProcessedParty | null")
NoParty == <<>>

\* a variant that stores the name lower-cased
newParty_normalized(index, partyName, balance) ==
    [id |-> index, partyName |-> [i \in DOMAIN partyName |->
                                    IF partyName[i] = "A" THEN "a"
                                    ELSE IF partyName[i] = "B" THEN "b"
                                    ELSE partyName[i]],
     rawBalance |-> balance,
     balanceDebit |-> 0, balanceCredit |-> 0, phoneNumber |-> "",
     bills |-> <<>>]

newParty(index, partyName, balance) ==
    [id |-> index, partyName |-> partyName, rawBalance |-> balance,
     balanceDebit |-> 0, balanceCredit |-> 0, phoneNumber |-> "",
     bills |-> <<>>]

\* the bill a detail row describes (status and manualAdjustment are absent
\* on a new bill: status "none", and manualAdjustment 0 as every reader
\* takes `manualAdjustment || 0`)
newBill(row) ==
    LET rawBillAmt == cleanCurrency(row.billAmt)
        receivedAmt == cleanCurrency(row.received)
        billAmt == IF Abs(receivedAmt) > 0 THEN round(rawBillAmt - receivedAmt)
                   ELSE rawBillAmt
    IN  [billNo |-> Trim(row.billNo), billDate |-> TrimDate(row.billDate),
         billAmt |-> billAmt, originalBillAmt |-> rawBillAmt,
         dueDate |-> row.dueDate, days |-> parseDays(row.days),
         status |-> "none", manualAdjustment |-> 0]

\* a detail row is kept unless it is a padding row
keepsRow(row) ==
    LET b == newBill(row)
    IN  Abs(b.billAmt) # 0 \/ b.billNo # <<>> \/ b.billDate # ""

\* a variant of rowStep that forgets the open party at the next header
rowStep_dropsOpenParty(acc, row, index) ==
    LET partyName == Trim(row.partyName) IN
    IF partyName # <<>>
    THEN [parties |-> acc.parties,
          currentParty |-> <<newParty(index, partyName, cleanCurrency(row.balance))>>]
    ELSE IF acc.currentParty # NoParty
    THEN IF keepsRow(row)
         THEN [acc EXCEPT !.currentParty[1].bills = Append(@, newBill(row))]
         ELSE acc
    ELSE acc

\* the body of rows.forEach for one row
rowStep(acc, row, index) ==
    LET partyName == Trim(row.partyName) IN
    IF partyName # <<>>
    THEN [parties |-> IF acc.currentParty # NoParty
                      THEN Append(acc.parties, finalizeParty(acc.currentParty[1]))
                      ELSE acc.parties,
          currentParty |-> <<newParty(index, partyName, cleanCurrency(row.balance))>>]
    ELSE IF acc.currentParty # NoParty
    THEN IF keepsRow(row)
         THEN [acc EXCEPT !.currentParty[1].bills = Append(@, newBill(row))]
         ELSE acc
    ELSE acc

\* the code after the forEach
endOfRows(acc) ==
    IF acc.currentParty # NoParty
    THEN Append(acc.parties, finalizeParty(acc.currentParty[1]))
    ELSE acc.parties

RECURSIVE foldRows(_, _, _)
foldRows(acc, rows, index) ==
    IF rows = <<>> THEN acc
    ELSE foldRows(rowStep(acc, Head(rows), index), Tail(rows), index + 1)

processRawData(rows) ==
    endOfRows(foldRows([parties |-> <<>>, currentParty |-> NoParty], rows, 0))

\* the bill lists of the parties finalizeParty is called on while the rows
\* are processed, in call order: at a header with a party open, and after
\* the last row with a party open
RECURSIVE logRows(_, _, _, _)
logRows(acc, rows, index, calls) ==
    IF rows = <<>>
    THEN IF acc.currentParty # NoParty
         THEN Append(calls, acc.currentParty[1].bills) ELSE calls
    ELSE LET next == rowStep(acc, Head(rows), index)
         IN  logRows(next, Tail(rows), index + 1,
                     IF Len(next.parties) > Len(acc.parties)
                     THEN Append(calls, acc.currentParty[1].bills) ELSE calls)

finalizeCalls(rows) ==
    logRows([parties |-> <<>>, currentParty |-> NoParty], rows, 0, <<>>)

\* ------------------------------------------------- syncPartyMobileNumbers
LowerChar(c) ==
    CASE c = "A" -> "a" [] c = "B" -> "b" [] c = "C" -> "c" [] c = "M" -> "m"
      [] c = "E" -> "e" [] OTHER -> c

toLowerCase(s) == [i \in DOMAIN s |-> LowerChar(s[i])]

LowerAlnum == {"a", "b", "c", "m", "e", "0", "1", "2", "3", "5", "9"}

RECURSIVE KeepChars(_, _)
KeepChars(s, keep) ==
    IF s = <<>> THEN <<>>
    ELSE IF Head(s) \in keep THEN <<Head(s)>> \o KeepChars(Tail(s), keep)
    ELSE KeepChars(Tail(s), keep)

normalizeName(name) == KeepChars(toLowerCase(name), LowerAlnum)

exactKey(name) == toLowerCase(Trim(name))

\* Map.get after the forEach of Map.set: the last record with that key
\* wins ("" when there is none); fuzzy chooses fuzzyMap over exactMap
RECURSIVE lookupPhone(_, _, _)
lookupPhone(dbParties, key, fuzzy) ==
    IF dbParties = <<>> THEN ""
    ELSE LET p == dbParties[Len(dbParties)]
             rest == SubSeq(dbParties, 1, Len(dbParties) - 1)
             k == IF fuzzy THEN normalizeName(p.party_name) ELSE exactKey(p.party_name)
         IN  IF p.party_name # <<>> /\ p.phone_number # "" /\ k = key
             THEN p.phone_number
             ELSE lookupPhone(rest, key, fuzzy)

\* db.ok = FALSE: the query failed or threw; the parties come back as given
\* a variant that gives back no parties when the contact query fails
syncPartyMobileNumbers_emptyOnError(parties, db) ==
    IF ~db.ok THEN <<>>
    ELSE IF db.rows = <<>> THEN parties
    ELSE [i \in DOMAIN parties |->
            LET p == parties[i]
                pName == Trim(p.partyName)
                exact == lookupPhone(db.rows, toLowerCase(pName), FALSE)
                dbPhone == IF exact # "" THEN exact
                           ELSE lookupPhone(db.rows, normalizeName(pName), TRUE)
            IN  IF dbPhone # "" THEN [p EXCEPT !.phoneNumber = dbPhone] ELSE p]

syncPartyMobileNumbers(parties, db) ==
    IF ~db.ok \/ db.rows = <<>> THEN parties
    ELSE [i \in DOMAIN parties |->
            LET p == parties[i]
                pName == Trim(p.partyName)
                exact == lookupPhone(db.rows, toLowerCase(pName), FALSE)
                dbPhone == IF exact # "" THEN exact
                           ELSE lookupPhone(db.rows, normalizeName(pName), TRUE)
            IN  IF dbPhone # "" THEN [p EXCEPT !.phoneNumber = dbPhone] ELSE p]

\* ------------------------------------------------- session mutation layer
isActive(b) == b.status # "paid" /\ b.status # "dispute"

\* the reduce of the three handlers
activeDebit(bills) ==
    SumSeq([i \in DOMAIN bills |-> IF isActive(bills[i]) THEN bills[i].billAmt ELSE 0])

\* a variant of withBills that runs finalizeParty on the updated party
withBills_refinalized(p, updatedBills) ==
    LET newDebit == activeDebit(updatedBills)
    IN  finalizeParty([p EXCEPT !.bills = updatedBills, !.balanceDebit = newDebit,
                                !.rawBalance = newDebit - p.balanceCredit])

withBills(p, updatedBills) ==
    LET newDebit == activeDebit(updatedBills)
    IN  [p EXCEPT !.bills = updatedBills, !.balanceDebit = newDebit,
                  !.rawBalance = newDebit - p.balanceCredit]

handlePhoneNumberChange(d, id, value) ==
    [i \in DOMAIN d |-> IF d[i].id = id THEN [d[i] EXCEPT !.phoneNumber = value] ELSE d[i]]

handleBillStatusChange(d, partyId, billNo, newStatus) ==
    [i \in DOMAIN d |->
        IF d[i].id # partyId THEN d[i]
        ELSE withBills(d[i],
               [k \in DOMAIN d[i].bills |->
                  IF d[i].bills[k].billNo = billNo
                  THEN [d[i].bills[k] EXCEPT !.status = newStatus]
                  ELSE d[i].bills[k]])]

\* variant of payBill: a payment equal to the amount does not settle
payBill_strict(b, amountReceived) ==
    LET remaining == b.billAmt - amountReceived
        newManual == b.manualAdjustment + amountReceived
    IN  IF remaining < 0
        THEN [b EXCEPT !.billAmt = 0, !.status = "paid", !.manualAdjustment = newManual]
        ELSE [b EXCEPT !.billAmt = remaining, !.status = "unpaid",
                       !.manualAdjustment = newManual]

payBill(b, amountReceived) ==
    LET remaining == b.billAmt - amountReceived
        newManual == b.manualAdjustment + amountReceived
    IN  IF remaining <= 0
        THEN [b EXCEPT !.billAmt = 0, !.status = "paid", !.manualAdjustment = newManual]
        ELSE [b EXCEPT !.billAmt = remaining, !.status = "unpaid",
                       !.manualAdjustment = newManual]

\* variant of handlePartialPayment: the excess of an overpayment is booked
\* as credit of the party
handlePartialPayment_excessAsCredit(d, partyId, billNo, amountReceived) ==
    [i \in DOMAIN d |->
        IF d[i].id # partyId THEN d[i]
        ELSE LET paid == withBills(d[i],
                           [k \in DOMAIN d[i].bills |->
                              IF d[i].bills[k].billNo # billNo THEN d[i].bills[k]
                              ELSE payBill(d[i].bills[k], amountReceived)])
                 excess == SumSeq([k \in DOMAIN d[i].bills |->
                              IF d[i].bills[k].billNo = billNo
                                 /\ amountReceived > d[i].bills[k].billAmt
                              THEN amountReceived - d[i].bills[k].billAmt ELSE 0])
             IN  [paid EXCEPT !.balanceCredit = @ + excess]]

handlePartialPayment(d, partyId, billNo, amountReceived) ==
    [i \in DOMAIN d |->
        IF d[i].id # partyId THEN d[i]
        ELSE withBills(d[i],
               [k \in DOMAIN d[i].bills |->
                  IF d[i].bills[k].billNo # billNo THEN d[i].bills[k]
                  ELSE payBill(d[i].bills[k], amountReceived)])]

undoBill(b) ==
    LET adjustmentToRevert == b.manualAdjustment
        newBillAmt == b.billAmt + adjustmentToRevert
    IN  IF adjustmentToRevert = 0 THEN b
        ELSE [b EXCEPT !.billAmt = newBillAmt,
                       !.status = IF newBillAmt > 0 THEN "unpaid" ELSE "paid",
                       !.manualAdjustment = 0]

handleUndoPartialPayment(d, partyId, billNo) ==
    [i \in DOMAIN d |->
        IF d[i].id # partyId THEN d[i]
        ELSE withBills(d[i],
               [k \in DOMAIN d[i].bills |->
                  IF d[i].bills[k].billNo # billNo THEN d[i].bills[k]
                  ELSE undoBill(d[i].bills[k])])]

\* ------------------------------------------------------ prefix classifier
\* The prefix table is an object; a table is modelled as the sequence of
\* its entries [prefix, company] in the order "for ... in" iterates them,
\* with no prefix occurring twice.
UpperChar(c) ==
    CASE c = "a" -> "A" [] c = "b" -> "B" [] c = "c" -> "C" [] OTHER -> c

toUpperCase(s) == [i \in DOMAIN s |-> UpperChar(s[i])]

startsWith(s, p) == Len(p) <= Len(s) /\ SubSeq(s, 1, Len(p)) = p

\* variant of stripStar: a leading star is kept
stripStar_keepsStar(s) == s

\* s.startsWith('*') ? s.substring(1) : s
stripStar(s) == IF startsWith(s, <<"*">>) THEN Tail(s) ELSE s

UpperAlnum == {"A", "B", "C", "E", "F", "H", "L", "M", "N", "O", "S", "X", "Y", "Z",
               "1", "2", "3", "5", "7"}

\* s.toUpperCase().replace(/[^A-Z0-9]/g, '')
clean(s) == KeepChars(toUpperCase(s), UpperAlnum)

\* the classifier's null
NoCompany == "null"

\* the three tests of the first loop, for one prefix
matchesUpper(upperBill, rawPrefix) ==
    LET upperPrefix == Trim(toUpperCase(rawPrefix))
        strippedPrefix == stripStar(upperPrefix)
        strippedBill == stripStar(upperBill)
    IN  \/ startsWith(upperBill, upperPrefix)
        \/ startsWith(upperBill, strippedPrefix)
        \/ startsWith(strippedBill, strippedPrefix)

\* the test of the second loop, for one prefix
matchesClean(billClean, rawPrefix) ==
    LET prefixClean == clean(rawPrefix)
    IN  prefixClean # <<>> /\ startsWith(billClean, prefixClean)

\* the first loop: the company of the first prefix, in iteration order,
\* that passes one of the three tests
RECURSIVE firstLoop(_, _)
firstLoop(table, upperBill) ==
    IF table = <<>> THEN NoCompany
    ELSE IF matchesUpper(upperBill, Head(table).prefix) THEN Head(table).company
    ELSE firstLoop(Tail(table), upperBill)

\* the second loop
RECURSIVE secondLoop(_, _)
secondLoop(table, billClean) ==
    IF table = <<>> THEN NoCompany
    ELSE IF matchesClean(billClean, Head(table).prefix) THEN Head(table).company
    ELSE secondLoop(Tail(table), billClean)

\* getCompanyNameFromBillNo, the table it reads made a parameter
getCompanyNameFromBillNo(table, billNo) ==
    IF billNo = <<>> THEN NoCompany
    ELSE LET upperBill == Trim(toUpperCase(billNo))
             first == firstLoop(table, upperBill)
             billClean == clean(billNo)
         IN  IF first # NoCompany THEN first
             ELSE IF billClean # <<>> THEN secondLoop(table, billClean)
             ELSE NoCompany

DEFAULT_PREFIX_MAP ==
    <<[prefix |-> <<"*", "H", "A", "L", "/", "2", "5", "/">>, company |-> "GSK"],
      [prefix |-> <<"B", "S", "O", "2", "5">>, company |-> "Johnson"]>>

Prefixes(table) == {table[i].prefix : i \in DOMAIN table}

RECURSIVE lookup(_, _)
lookup(table, prefix) ==
    IF Head(table).prefix = prefix THEN Head(table).company ELSE lookup(Tail(table), prefix)

\* { ...a, ...b }: the keys of a in their order, carrying b's value where b
\* has the key, then the keys only b has, in b's order
spread(a, b) ==
    [i \in DOMAIN a |->
        IF a[i].prefix \in Prefixes(b)
        THEN [prefix |-> a[i].prefix, company |-> lookup(b, a[i].prefix)]
        ELSE a[i]]
    \o SelectSeq(b, LAMBDA e : e.prefix \notin Prefixes(a))

\* variant of updateGlobalPrefixMap: the new map alone becomes the table
updateGlobalPrefixMap_wholesale(newMap) == newMap

updateGlobalPrefixMap(newMap) == spread(DEFAULT_PREFIX_MAP, newMap)

\* ---------------------------------------------------- party detail view
\* filteredBills with the App's initial filters (no company, no minimum
\* days, no date range): the bills the transaction table lists
filteredBills(party) == {k \in DOMAIN party.bills : party.bills[k].billAmt > 0}

\* the bills of the "Partial Payment Adjustments" table (undo button)
partiallyPaidBills(party) ==
    {k \in filteredBills(party) : party.bills[k].manualAdjustment > 0}

\* the button a listed bill offers for newStatus
offersStatus(b, newStatus) ==
    IF b.status = "paid" \/ b.status = "dispute"
    THEN newStatus = "unpaid"
    ELSE newStatus \in {"paid", "dispute"}

\* ------------------------------------------------------ filters and totals
\* The filter settings of App: [filterCompanies, filterMinDays, from, to];
\* filterMinDays '' is NoNumber, a date bound is a date-input text or "".
UNMAPPED_KEY == "D.N/TCS"

\* getFilterTimestamp: the day number of a date-input text, 0 for null
getFilterTimestamp(dateStr) ==
    CASE dateStr = ""           -> 0
      [] dateStr = "2024-01-01" -> 1
      [] dateStr = "2024-02-01" -> 32
      [] OTHER                  -> 0

\* getCompanyNameFromBillNo(b.billNo) || UNMAPPED_KEY
companyOrUnmapped(table, billNo) ==
    LET company == getCompanyNameFromBillNo(table, billNo)
    IN  IF company = NoCompany THEN UNMAPPED_KEY ELSE company

\* the company and min-days tests the filters share, each in its own code
passesCompany(table, b, f) ==
    f.filterCompanies = {} \/ companyOrUnmapped(table, b.billNo) \in f.filterCompanies

passesMinDays(b, f) == ~(f.filterMinDays # NoNumber /\ b.days < f.filterMinDays)

\* the date test with three branches: only from, only to, otherwise
dateRangeThreeWay(b, f) ==
    IF f.from # "" \/ f.to # ""
    THEN LET bDate == parseDate(b.billDate)
             fromTs == getFilterTimestamp(f.from)
             toTs == getFilterTimestamp(f.to)
         IN  IF bDate = 0 THEN FALSE
             ELSE IF f.from # "" /\ f.to = "" THEN ~(fromTs # 0 /\ bDate > fromTs)
             ELSE IF f.from = "" /\ f.to # "" THEN ~(toTs # 0 /\ bDate > toTs)
             ELSE ~(fromTs # 0 /\ bDate < fromTs) /\ ~(toTs # 0 /\ bDate > toTs)
    ELSE TRUE

\* variant of dateRangeTwoWay: a lone "to" is no bound
dateRangeTwoWay_fromOnly(b, f) ==
    IF f.from # "" \/ f.to # ""
    THEN LET bDate == parseDate(b.billDate)
             fromTs == getFilterTimestamp(f.from)
             toTs == getFilterTimestamp(f.to)
         IN  IF bDate = 0 THEN FALSE
             ELSE IF f.from # "" /\ f.to = "" THEN ~(fromTs # 0 /\ bDate > fromTs)
             ELSE IF f.from = "" THEN TRUE
             ELSE ~(fromTs # 0 /\ bDate < fromTs) /\ ~(toTs # 0 /\ bDate > toTs)
    ELSE TRUE

\* the date test with two branches: only from, otherwise
dateRangeTwoWay(b, f) ==
    IF f.from # "" \/ f.to # ""
    THEN LET bDate == parseDate(b.billDate)
             fromTs == getFilterTimestamp(f.from)
             toTs == getFilterTimestamp(f.to)
         IN  IF bDate = 0 THEN FALSE
             ELSE IF f.from # "" /\ f.to = "" THEN ~(fromTs # 0 /\ bDate > fromTs)
             ELSE ~(fromTs # 0 /\ bDate < fromTs) /\ ~(toTs # 0 /\ bDate > toTs)
    ELSE TRUE

\* the callback of getFilteredBillsForParty (dashboard)
dashboardKeeps(table, b, f) ==
    /\ ~(b.billAmt <= 0)
    /\ passesCompany(table, b, f)
    /\ passesMinDays(b, f)
    /\ dateRangeThreeWay(b, f)

\* the callback of filteredBills (party detail view)
detailKeeps(table, b, f) ==
    /\ ~(b.billAmt <= 0)
    /\ passesCompany(table, b, f)
    /\ passesMinDays(b, f)
    /\ dateRangeThreeWay(b, f)

\* checkBillMatch (standard and combined export)
checkBillMatch(table, b, f) ==
    /\ ~(b.status = "paid" \/ b.status = "dispute")
    /\ passesCompany(table, b, f)
    /\ passesMinDays(b, f)
    /\ dateRangeTwoWay(b, f)

\* the callback of downloadExcelCompanyWide
companyWideKeeps(table, b, f) ==
    /\ ~(b.billAmt <= 0)
    /\ ~(b.status = "paid" \/ b.status = "dispute")
    /\ passesMinDays(b, f)
    /\ passesCompany(table, b, f)
    /\ dateRangeTwoWay(b, f)

getFilteredBillsForParty(table, party, f) ==
    SelectSeq(party.bills, LAMBDA b : dashboardKeeps(table, b, f))

SumBills(bills) == SumSeq([i \in DOMAIN bills |-> bills[i].billAmt])

\* the dashboard row of a party: activeBills and visibleDebit
activeBills(table, party, f) ==
    SelectSeq(getFilteredBillsForParty(table, party, f), LAMBDA b : b.status # "paid")

visibleDebit(table, party, f) == SumBills(activeBills(table, party, f))

\* the party detail view: filteredBills under the settings, effectiveBills,
\* filteredNetDebit
filteredBillsUnder(table, party, f) ==
    SelectSeq(party.bills, LAMBDA b : detailKeeps(table, b, f))

effectiveBills(table, party, f) ==
    SelectSeq(filteredBillsUnder(table, party, f), LAMBDA b : isActive(b))

filteredNetDebit(table, party, f) == SumBills(effectiveBills(table, party, f))

\* downloadExcel / downloadExcelCombined: partyBills and activeDebit
partyBills(table, party, f) ==
    SelectSeq(party.bills, LAMBDA b : checkBillMatch(table, b, f))

exportActiveDebit(table, party, f) == round(SumBills(partyBills(table, party, f)))

\* downloadExcelCompanyWide: companyDebitTotal
companyDebitTotal(table, party, f) ==
    round(SumBills(SelectSeq(party.bills, LAMBDA b : companyWideKeeps(table, b, f))))

\* every bill of every party, in order
RECURSIVE billsOf(_)
billsOf(d) == IF d = <<>> THEN <<>> ELSE Head(d).bills \o billsOf(Tail(d))

\* DashboardStats: the four aging buckets
agingBucket(b) ==
    IF b.days <= 30 THEN 1 ELSE IF b.days <= 60 THEN 2 ELSE IF b.days <= 90 THEN 3 ELSE 4

agingAnalysis(d) ==
    [n \in 1..4 |->
        SumBills(SelectSeq(billsOf(d), LAMBDA b : b.billAmt > 0 /\ agingBucket(b) = n))]

\* Math.round, on thousandths
MathRound(v) == ((v + 500) \div 1000) * 1000

\* DashboardStats: the amount shown for a company (0: not shown)
companyWiseTotals(d, table, company) ==
    MathRound(SumBills(SelectSeq(billsOf(d),
        LAMBDA b : b.billAmt > 0 /\ companyOrUnmapped(table, b.billNo) = company)))

\* ------------------------------------------------------------------ inputs
Acme == <<"A", "c", "m", "e">>
Beta == <<"B">>
X1 == <<"X", "1">>
Y1 == <<"Y", "1">>
C1No == <<"C", "N">>
F1 == <<"F", "1">>

HeaderAcme == Row(Acme, <<>>, "", EmptyCell, EmptyCell, TxtMinus(Rupees(100)), NoNumber)
HeaderBeta == Row(<<" ">> \o Beta, <<>>, "", EmptyCell, EmptyCell, EmptyCell, NoNumber)

DetailX1     == Row(<<>>, X1, "01-Jan-24", Txt(Rupees(300)), EmptyCell, EmptyCell, 40)
DetailX1Feb  == Row(<<>>, X1 \o <<" ">>, "01-Feb-24", Txt(Rupees(100)), EmptyCell, EmptyCell, 10)
DetailCredit == Row(<<>>, C1No, "01-Jan-24", TxtCr(Rupees(150)), EmptyCell, EmptyCell, 0)
DetailY1     == Row(<<>>, Y1, " 01-Jan-24 ", Txt(Rupees(300)), Txt(Rupees(50)), EmptyCell, 95)
DetailMinus  == Row(<<>>, <<>>, "", TxtMinus(Rupees(250)), EmptyCell, EmptyCell, NoNumber)
DetailNoNo   == Row(<<>>, <<>>, "01-Mar-24", Txt(Rupees(100)), EmptyCell, EmptyCell, 5)
DetailRefund == Row(<<>>, Y1, "garbage", Txt(Rupees(200)), TxtParens(Rupees(50)), EmptyCell, 0)
DetailFraction == Row(<<>>, F1, "01-Feb-24", Txt(Rupees(150) + 4), EmptyCell, EmptyCell, 20)
DetailZero   == Row(<<>>, X1, "", EmptyCell, EmptyCell, EmptyCell, 0)
Padding      == Row(<<>>, <<" ">>, "", EmptyCell, EmptyCell, EmptyCell, NoNumber)
\* a detail row whose Party Name cell holds a blank
DetailBlankName == Row(<<" ">>, Y1, "01-Mar-24", Txt(Rupees(100)), EmptyCell, EmptyCell, 5)

\* rows of the files the application life cycle uploads
UploadRows == {HeaderAcme, DetailX1, DetailX1Feb, DetailCredit, DetailY1, DetailFraction}

\* rows of the files the row-by-row parse reads
ParseRows == UploadRows \cup
             {HeaderBeta, DetailMinus, DetailNoNo, DetailRefund, DetailZero, Padding,
              DetailBlankName}

RECURSIVE SeqsUpTo(_, _)
SeqsUpTo(S, n) ==
    IF n = 0 THEN {<<>>}
    ELSE LET shorter == SeqsUpTo(S, n - 1)
         IN  shorter \cup {Append(q, x) : q \in {r \in shorter : Len(r) = n - 1}, x \in S}

\* what the contacts table answers: a failed query, or the stored contacts
ContactAnswers ==
    {[ok |-> FALSE, rows |-> <<>>],
     [ok |-> TRUE, rows |-> <<>>],
     [ok |-> TRUE, rows |-> <<[party_name |-> <<"A", "C", "M", "E", ".">>,
                              phone_number |-> "98"]>>]}

PhoneValues == {"", "97"}

\* amounts typed into the payment modal (0: not a positive number)
PaymentAmounts == {0, Rupees(50), Rupees(200)}

\* a bill of a built-in prefix, with a date parseDate cannot read
DetailBSO == Row(<<>>, <<"B", "S", "O", "2", "5", "/", "7">>, "garbage", Txt(Rupees(100)),
                 EmptyCell, EmptyCell, 95)

\* rows of the files uploaded under the filtered views
FilterRows == {HeaderAcme, DetailX1, DetailFraction, DetailCredit, DetailBSO}

NoFilters == [filterCompanies |-> {}, filterMinDays |-> NoNumber, from |-> "", to |-> ""]

\* the settings of the filter bar
FilterSettings ==
    {[filterCompanies |-> c, filterMinDays |-> m, from |-> r[1], to |-> r[2]] :
        c \in {{}, {"Johnson"}, {UNMAPPED_KEY}},
        m \in {NoNumber, 30},
        r \in {<<"", "">>, <<"2024-01-01", "">>, <<"", "2024-01-01">>,
               <<"2024-02-01", "2024-02-01">>, <<"2024-01-01", "2024-02-01">>}}

\* rows of the files uploaded while external calls may fail
ExternalRows == {HeaderAcme, HeaderBeta, DetailX1, DetailY1}

\* rows of the files uploaded before the cloud saves
SaveRows == {HeaderAcme, HeaderBeta, DetailX1}

\* the amount typed into the payment modal before the cloud saves
SavePaymentAmounts == {Rupees(200)}

\* entries of uploaded prefix guides
EntryABC   == [prefix |-> <<"A", "B", "C", "/">>, company |-> "X"]
EntryAB    == [prefix |-> <<"A", "B">>, company |-> "Y"]
EntryStarAB == [prefix |-> <<"*", "A", "B">>, company |-> "Y"]
EntryBSO   == [prefix |-> <<"B", "S", "O", "2", "5">>, company |-> "X"]

PrefixEntries == {EntryABC, EntryAB, EntryStarAB, EntryBSO}

\* the guides parsePrefixFile can give: no prefix twice
PrefixTables ==
    {t \in SeqsUpTo(PrefixEntries, MaxPrefixes) :
        \A i, j \in DOMAIN t : i # j => t[i].prefix # t[j].prefix}

\* bill numbers asked of the classifier
BillStarABC == <<"*", "A", "B", "C", "/", "1", "2", "3">>
BillABdashC == <<"A", "B", "-", "C", "/", "1", "2", "3">>
BillABC     == <<"A", "B", "C", "/", "1", "2", "3">>
BillLower   == <<"a", "b", "c", "/", "1">>
BillBSO     == <<"B", "S", "O", "2", "5", "/", "7">>
BillHAL     == <<"H", "A", "L", "/", "2", "5", "/", "3">>
BillZZ      == <<"Z", "Z", "/", "1">>
BillPunct   == <<"-", "/">>

BillNos == {<<>>, BillStarABC, BillABdashC, BillABC, BillLower, BillBSO, BillHAL,
            BillZZ, BillPunct}

\* ------------------------------------------------------------------- state
VARIABLES
    data,          \* App: the party collection (useState<ProcessedParty[]>)
    rowsRead,      \* processRawData: the rows the forEach has consumed
    parties,       \* processRawData: the parties emitted so far
    currentParty,  \* processRawData: the open party, or NoParty
    fed,           \* the bill lists finalizeParty was called with, per emitted party
    pc,            \* processRawData: "idle", "rows" or "done"
    prefixMap,     \* csvProcessor: CURRENT_PREFIX_MAP
    newPrefixMap,  \* the argument of the last updateGlobalPrefixMap call
    classified,    \* the classification on screen: [billNo, company], and the
                   \* company shown before the table was last replaced
    filters,       \* App: filterCompanies, filterMinDays, dateRange
    file,          \* the rows of the file handleFileSelect was last given
    outcome,       \* the last handler run and what its external calls answered
    cloud,         \* supabase: the party collection last written by saveGlobalData
    timers         \* App: saveTimeouts, the pending debounced saves with the
                   \* collection each captured

vars == <<data, rowsRead, parties, currentParty, fed, pc,
          prefixMap, newPrefixMap, classified, filters, file, outcome,
          cloud, timers>>
parseVars == <<rowsRead, parties, currentParty, fed, pc>>
classVars == <<prefixMap, newPrefixMap, classified>>
uploadVars == <<file, outcome>>
saveVars == <<cloud, timers>>

\* the module's table as loaded, nothing classified yet
InitClassVars ==
    /\ prefixMap = DEFAULT_PREFIX_MAP
    /\ newPrefixMap = <<>>
    /\ classified = [billNo |-> <<>>, company |-> NoCompany, previous |-> NoCompany]
    /\ filters = NoFilters
    /\ file = <<>>
    /\ outcome = [handler |-> "none", sync |-> "idle", save |-> "none", args |-> <<>>]
    /\ cloud = <<>>
    /\ timers = {}

\* ---------------------------------------------- application life cycle
Init ==
    /\ data = <<>>
    /\ rowsRead = <<>> /\ parties = <<>> /\ currentParty = NoParty
    /\ fed = <<>> /\ pc = "idle"
    /\ InitClassVars

\* handleFileSelect: the upload widget is rendered while data is empty
FileSelect ==
    /\ data = <<>>
    /\ \E rows \in SeqsUpTo(UploadRows, MaxRows), db \in ContactAnswers :
          /\ data' = syncPartyMobileNumbers(processRawData(rows), db)
          /\ fed' = finalizeCalls(rows)
    /\ UNCHANGED <<rowsRead, parties, currentParty, pc, classVars, filters, uploadVars, saveVars>>

\* a status button of a listed bill of the party detail view
BillStatusChange ==
    /\ \E i \in DOMAIN data :
         \E k \in filteredBills(data[i]), newStatus \in {"unpaid", "paid", "dispute"} :
            /\ offersStatus(data[i].bills[k], newStatus)
            /\ data' = handleBillStatusChange(data, data[i].id,
                                              data[i].bills[k].billNo, newStatus)
    /\ UNCHANGED <<parseVars, classVars, filters, uploadVars, saveVars>>

\* submitPayment of the payment modal, opened on a listed active bill
SubmitPayment ==
    /\ \E i \in DOMAIN data :
         \E k \in filteredBills(data[i]), amount \in PaymentAmounts, confirm \in BOOLEAN :
            LET b == data[i].bills[k] IN
            /\ isActive(b)
            /\ \A m \in DOMAIN data[i].bills :
                  data[i].bills[m].billNo = b.billNo
                     => data[i].bills[m].manualAdjustment + amount <= MaxManual
            /\ IF amount <= 0 \/ (amount > b.billAmt /\ ~confirm)
               THEN UNCHANGED data
               ELSE data' = handlePartialPayment(data, data[i].id, b.billNo, amount)
    /\ UNCHANGED <<parseVars, classVars, filters, uploadVars, saveVars>>

\* the cancel button of the "Partial Payment Adjustments" table
UndoPartialPayment ==
    /\ \E i \in DOMAIN data :
         \E k \in partiallyPaidBills(data[i]) :
            data' = handleUndoPartialPayment(data, data[i].id, data[i].bills[k].billNo)
    /\ UNCHANGED <<parseVars, classVars, filters, uploadVars, saveVars>>

\* the phone input of a dashboard row
PhoneNumberChange ==
    /\ \E i \in DOMAIN data, value \in PhoneValues :
          data' = handlePhoneNumberChange(data, data[i].id, value)
    /\ UNCHANGED <<parseVars, classVars, filters, uploadVars, saveVars>>

Next ==
    \/ FileSelect
    \/ BillStatusChange
    \/ SubmitPayment
    \/ UndoPartialPayment
    \/ PhoneNumberChange

Spec == Init /\ [][Next]_vars

\* -------------------------------------------------- the row-by-row parse
InitParse ==
    /\ data = <<>>
    /\ rowsRead = <<>> /\ parties = <<>> /\ currentParty = NoParty
    /\ fed = <<>> /\ pc = "rows"
    /\ InitClassVars

acc == [parties |-> parties, currentParty |-> currentParty]

\* one turn of rows.forEach
ReadRow ==
    /\ pc = "rows"
    /\ Len(rowsRead) < MaxParseRows
    /\ \E row \in ParseRows :
          LET next == rowStep(acc, row, Len(rowsRead)) IN
          /\ rowsRead' = Append(rowsRead, row)
          /\ parties' = next.parties
          /\ currentParty' = next.currentParty
          /\ fed' = IF Len(next.parties) > Len(parties)
                    THEN Append(fed, currentParty[1].bills) ELSE fed
    /\ UNCHANGED <<data, pc, classVars, filters, uploadVars, saveVars>>

\* the end of the input
EndOfRows ==
    /\ pc = "rows"
    /\ parties' = endOfRows(acc)
    /\ fed' = IF currentParty # NoParty THEN Append(fed, currentParty[1].bills) ELSE fed
    /\ currentParty' = NoParty
    /\ pc' = "done"
    /\ UNCHANGED <<data, rowsRead, classVars, filters, uploadVars, saveVars>>

NextParse == ReadRow \/ EndOfRows

SpecParse == InitParse /\ [][NextParse]_vars

\* ------------------------------------------------------ the classifier
InitClassify ==
    /\ data = <<>>
    /\ rowsRead = <<>> /\ parties = <<>> /\ currentParty = NoParty
    /\ fed = <<>> /\ pc = "classify"
    /\ InitClassVars

\* handlePrefixUpload: when the cloud took the guide, the table is updated
\* and the re-render derives the company again
PrefixUpload ==
    /\ \E guide \in PrefixTables, success \in BOOLEAN :
          IF success
          THEN /\ prefixMap' = updateGlobalPrefixMap(guide)
               /\ newPrefixMap' = guide
               /\ classified' =
                     [billNo |-> classified.billNo,
                      company |-> getCompanyNameFromBillNo(updateGlobalPrefixMap(guide),
                                                           classified.billNo),
                      previous |-> classified.company]
          ELSE UNCHANGED <<prefixMap, newPrefixMap, classified>>
    /\ UNCHANGED <<data, parseVars, filters, uploadVars, saveVars>>

\* a render that calls getCompanyNameFromBillNo
Classify ==
    /\ \E billNo \in BillNos :
          LET company == getCompanyNameFromBillNo(prefixMap, billNo)
          IN  classified' = [billNo |-> billNo, company |-> company, previous |-> company]
    /\ UNCHANGED <<data, parseVars, prefixMap, newPrefixMap, filters, uploadVars, saveVars>>

NextClassify == PrefixUpload \/ Classify

SpecClassify == InitClassify /\ [][NextClassify]_vars

\* ----------------------------------------------------- the filtered views
\* handleFileSelect, for the files of the filtered views
FilterFileSelect ==
    /\ data = <<>>
    /\ \E rows \in SeqsUpTo(FilterRows, MaxFilterRows), db \in ContactAnswers :
          data' = syncPartyMobileNumbers(processRawData(rows), db)
    /\ UNCHANGED <<parseVars, classVars, filters, uploadVars, saveVars>>

\* the filter bar: companies, min days, date range
SetFilters ==
    /\ data # <<>>
    /\ \E f \in FilterSettings : filters' = f
    /\ UNCHANGED <<data, parseVars, classVars, uploadVars, saveVars>>

\* a status button of a bill the party detail view lists under the filters
DetailStatusChange ==
    /\ \E i \in DOMAIN data :
         \E k \in DOMAIN data[i].bills, newStatus \in {"unpaid", "paid", "dispute"} :
            /\ detailKeeps(prefixMap, data[i].bills[k], filters)
            /\ offersStatus(data[i].bills[k], newStatus)
            /\ data' = handleBillStatusChange(data, data[i].id,
                                              data[i].bills[k].billNo, newStatus)
    /\ UNCHANGED <<parseVars, classVars, filters, uploadVars, saveVars>>

NextFilter == FilterFileSelect \/ SetFilters \/ DetailStatusChange

SpecFilter == Init /\ [][NextFilter]_vars

\* ------------------------------------------- uploads and external calls
\* what saveGlobalData answers
saveAnswer(success) == IF success THEN "ok" ELSE "failed"

\* handleFileSelect: parse, contact sync, cloud save, then setData; a file
\* parseFile rejects leaves the collection alone
UploadFile ==
    /\ data = <<>>
    /\ \E rows \in SeqsUpTo(ExternalRows, MaxExternalRows), parsed \in BOOLEAN,
          db \in ContactAnswers, success \in BOOLEAN :
          IF parsed
          THEN /\ data' = syncPartyMobileNumbers(processRawData(rows), db)
               /\ file' = rows
               /\ outcome' = [handler |-> "handleFileSelect",
                              sync |-> IF db.ok THEN "success" ELSE "error",
                              save |-> saveAnswer(success), args |-> <<>>]
          ELSE /\ outcome' = [outcome EXCEPT !.handler = "handleFileSelect",
                                             !.sync = "idle", !.args = <<>>]
               /\ UNCHANGED <<data, file>>
    /\ UNCHANGED <<parseVars, classVars, filters, saveVars>>

\* handleBillStatusChange from a status button, with the answer of the save
SavedStatusChange ==
    /\ \E i \in DOMAIN data :
         \E k \in filteredBills(data[i]), newStatus \in {"unpaid", "paid", "dispute"},
            success \in BOOLEAN :
            /\ offersStatus(data[i].bills[k], newStatus)
            /\ data' = handleBillStatusChange(data, data[i].id,
                                              data[i].bills[k].billNo, newStatus)
            /\ outcome' = [outcome EXCEPT !.handler = "handleBillStatusChange",
                                          !.save = saveAnswer(success),
                                          !.args = <<data[i].id, data[i].bills[k].billNo,
                                                     newStatus>>]
    /\ UNCHANGED <<parseVars, classVars, filters, file, saveVars>>

\* handlePartialPayment from the payment modal, with the answer of the save
SavedPayment ==
    /\ \E i \in DOMAIN data :
         \E k \in filteredBills(data[i]), amount \in PaymentAmounts \ {0},
            success \in BOOLEAN :
            LET b == data[i].bills[k] IN
            /\ isActive(b)
            /\ \A m \in DOMAIN data[i].bills :
                  data[i].bills[m].billNo = b.billNo
                     => data[i].bills[m].manualAdjustment + amount <= MaxManual
            /\ data' = handlePartialPayment(data, data[i].id, b.billNo, amount)
            /\ outcome' = [outcome EXCEPT !.handler = "handlePartialPayment",
                                          !.save = saveAnswer(success),
                                          !.args = <<data[i].id, b.billNo, amount>>]
    /\ UNCHANGED <<parseVars, classVars, filters, file, saveVars>>

\* handleUndoPartialPayment from the cancel button, with the answer of the
\* save
SavedUndo ==
    /\ \E i \in DOMAIN data :
         \E k \in partiallyPaidBills(data[i]), success \in BOOLEAN :
            /\ data' = handleUndoPartialPayment(data, data[i].id, data[i].bills[k].billNo)
            /\ outcome' = [outcome EXCEPT !.handler = "handleUndoPartialPayment",
                                          !.save = saveAnswer(success),
                                          !.args = <<data[i].id, data[i].bills[k].billNo>>]
    /\ UNCHANGED <<parseVars, classVars, filters, file, saveVars>>

NextUpload == UploadFile \/ SavedStatusChange \/ SavedPayment \/ SavedUndo

SpecUpload == Init /\ [][NextUpload]_vars

\* ---------------------------------------------------------- cloud saves
\* Every saveGlobalData call of this section succeeds and is applied when
\* it is issued; a debounced save is applied when its timer fires.

\* clearTimeout(saveTimeouts.current[id]); saveTimeouts.current[id] = ...
setTimer(ts, id, snapshot) ==
    {t \in ts : t.id # id} \cup {[id |-> id, snapshot |-> snapshot]}

\* handleFileSelect: the collection is saved, then shown
SaveFileSelect ==
    /\ data = <<>>
    /\ \E rows \in SeqsUpTo(SaveRows, MaxSaveRows), db \in ContactAnswers :
          LET syncedProcessed == syncPartyMobileNumbers(processRawData(rows), db)
          IN  data' = syncedProcessed /\ cloud' = syncedProcessed
    /\ UNCHANGED <<parseVars, classVars, filters, uploadVars, timers>>

\* handlePhoneNumberChange: setData at once, the save after the debounce
\* with the collection captured at the edit
SavePhoneNumberChange ==
    /\ \E i \in DOMAIN data, value \in PhoneValues :
          LET updatedData == handlePhoneNumberChange(data, data[i].id, value)
          IN  /\ data' = updatedData
              /\ timers' = setTimer(timers, data[i].id, updatedData)
    /\ UNCHANGED <<parseVars, classVars, filters, uploadVars, cloud>>

\* the callback of a debounce timer: saveGlobalData(updatedData)
TimerFires ==
    /\ \E t \in timers :
          /\ cloud' = t.snapshot
          /\ timers' = timers \ {t}
    /\ UNCHANGED <<data, parseVars, classVars, filters, uploadVars>>

\* handleBillStatusChange: setData(newData); saveGlobalData(newData)
SaveStatusChange ==
    /\ \E i \in DOMAIN data :
         \E k \in filteredBills(data[i]), newStatus \in {"unpaid", "paid", "dispute"} :
            LET newData == handleBillStatusChange(data, data[i].id,
                                                  data[i].bills[k].billNo, newStatus)
            IN  /\ offersStatus(data[i].bills[k], newStatus)
                /\ data' = newData
                /\ cloud' = newData
    /\ UNCHANGED <<parseVars, classVars, filters, uploadVars, timers>>

\* handlePartialPayment: setData(newData); saveGlobalData(newData)
SavePartialPayment ==
    /\ \E i \in DOMAIN data :
         \E k \in filteredBills(data[i]), amount \in SavePaymentAmounts :
            LET b == data[i].bills[k]
                newData == handlePartialPayment(data, data[i].id, b.billNo, amount)
            IN  /\ isActive(b)
                /\ \A m \in DOMAIN data[i].bills :
                      data[i].bills[m].billNo = b.billNo
                         => data[i].bills[m].manualAdjustment + amount <= MaxManual
                /\ data' = newData
                /\ cloud' = newData
    /\ UNCHANGED <<parseVars, classVars, filters, uploadVars, timers>>

NextSave ==
    \/ SaveFileSelect
    \/ SavePhoneNumberChange
    \/ TimerFires
    \/ SaveStatusChange
    \/ SavePartialPayment

SpecSave == Init /\ [][NextSave]_vars

\* ------------------------------------------------------ the payment modal
\* what confirm() was answered, or that it was not asked
confirmAnswer(amount, bill, confirm) ==
    IF amount <= 0 THEN "invalid"
    ELSE IF amount > bill.billAmt
    THEN IF confirm THEN "confirmed" ELSE "declined"
    ELSE "unasked"

\* submitPayment of the payment modal, opened on a listed active bill: the
\* amount typed, the answer to confirm(), then onPartialPayment
ModalSubmit ==
    /\ \E i \in DOMAIN data :
         \E k \in filteredBills(data[i]), amount \in PaymentAmounts, confirm \in BOOLEAN :
            LET b == data[i].bills[k]
                answer == confirmAnswer(amount, b, confirm)
            IN
            /\ isActive(b)
            /\ \A m \in DOMAIN data[i].bills :
                  data[i].bills[m].billNo = b.billNo
                     => data[i].bills[m].manualAdjustment + amount <= MaxManual
            /\ IF answer \in {"invalid", "declined"}
               THEN UNCHANGED data
               ELSE data' = handlePartialPayment(data, data[i].id, b.billNo, amount)
            /\ outcome' = [outcome EXCEPT !.handler = "submitPayment",
                                          !.args = <<data[i].id, k, amount, answer>>]
    /\ UNCHANGED <<parseVars, classVars, filters, file, saveVars>>

NextPayment == FileSelect \/ ModalSubmit

SpecPayment == Init /\ [][NextPayment]_vars

\* ------------------------------------------------------------ properties
\* the sum of f[i] over the indices i in S
RECURSIVE SumOver(_, _)
SumOver(f, S) ==
    IF S = {} THEN 0
    ELSE LET i == CHOOSE x \in S : TRUE IN f[i] + SumOver(f, S \ {i})

Positive(bills) == {i \in DOMAIN bills : bills[i].billAmt > 0}
Negative(bills) == {i \in DOMAIN bills : bills[i].billAmt < 0}
TotalNegativeMagnitude(bills) ==
    SumOver([i \in DOMAIN bills |-> -bills[i].billAmt], Negative(bills))
SumBillAmt(bills) == SumOver([i \in DOMAIN bills |-> bills[i].billAmt], DOMAIN bills)

\* C1: FIFO conservation. For every party the row grouper built and
\* finalized, with creditConsumed the credit the party did not keep
\* (total magnitude of its negative bills minus balanceCredit), the sum of
\* originalBillAmt over the positive bills fed into finalize minus the sum
\* of billAmt over the bills left after finalize equals creditConsumed.
C1_FifoConservation ==
    \A j \in DOMAIN parties :
        LET creditConsumed == TotalNegativeMagnitude(fed[j]) - parties[j].balanceCredit
        IN  SumOver([i \in DOMAIN fed[j] |-> fed[j][i].originalBillAmt], Positive(fed[j]))
               - SumBillAmt(parties[j].bills) = creditConsumed

\* the end-to-end scenario has been parsed
ParsedAcmeScenario == pc = "done" /\ rowsRead = <<HeaderAcme, DetailX1>>

\* C2: end-to-end, header Balance -100 then one detail row with Bill Amt 300:
\* one party, one bill with billAmt 200 and originalBillAmt 300,
\* balanceCredit 0 (the header balance absorbed as credit).
C2_HeaderBalanceAbsorbed ==
    ParsedAcmeScenario =>
        /\ Len(parties) = 1
        /\ Len(parties[1].bills) = 1
        /\ parties[1].bills[1].billAmt = Rupees(200)
        /\ parties[1].bills[1].originalBillAmt = Rupees(300)
        /\ parties[1].balanceCredit = 0

\* C2 as amended: the same rows give one party with one bill whose billAmt
\* and originalBillAmt are both 300, balanceCredit 0, balanceDebit and
\* rawBalance 300: the header Balance is not credit, and finalize
\* overwrites the rawBalance it seeded.
C2_HeaderBalanceNotCredit ==
    ParsedAcmeScenario =>
        /\ Len(parties) = 1
        /\ parties[1].partyName = Acme
        /\ Len(parties[1].bills) = 1
        /\ parties[1].bills[1].billAmt = Rupees(300)
        /\ parties[1].bills[1].originalBillAmt = Rupees(300)
        /\ parties[1].balanceCredit = 0
        /\ parties[1].balanceDebit = Rupees(300)
        /\ parties[1].rawBalance = Rupees(300)

C2_Witness == ParsedAcmeScenario /\ Len(parties) = 1

\* C4: finalize is idempotent on a finalized party: a second application
\* leaves bills, balanceDebit, balanceCredit and rawBalance unchanged.
C4_FinalizeIdempotent ==
    \A j \in DOMAIN parties :
        LET again == finalizeParty(parties[j])
        IN  /\ again.bills = parties[j].bills
            /\ again.balanceDebit = parties[j].balanceDebit
            /\ again.balanceCredit = parties[j].balanceCredit
            /\ again.rawBalance = parties[j].rawBalance

\* C4 as amended: a second application keeps, in order, the bills with
\* billAmt > 0 (all of them, unless a remainder was rounded to 0), leaves
\* balanceDebit unchanged, sets balanceCredit to 0 and rawBalance to
\* balanceDebit; so when every bill left is positive it changes nothing
\* exactly when the first run left no credit.
C4_FinalizeTwice ==
    \A j \in DOMAIN parties :
        LET again == finalizeParty(parties[j])
            kept == SelectSeq(parties[j].bills, LAMBDA b : b.billAmt > 0)
        IN  /\ again.bills = kept
            /\ again.balanceDebit = parties[j].balanceDebit
            /\ again.balanceCredit = 0
            /\ again.rawBalance = parties[j].balanceDebit
            /\ kept = parties[j].bills =>
                  ((again = parties[j]) <=> (parties[j].balanceCredit = 0))

\* two parties finalized: one kept credit, one has a bill reduced by credit
C4_Witness ==
    /\ \E j \in DOMAIN parties : parties[j].balanceCredit > 0
    /\ \E j \in DOMAIN parties :
          \E k \in DOMAIN parties[j].bills :
              parties[j].bills[k].billAmt < parties[j].bills[k].originalBillAmt

\* ---- properties of the application life cycle
\* C3: after finalization, through any sequence of status changes, partial
\* payments and undos, every bill has billAmt <= originalBillAmt.
C3_BillAmtAtMostOriginal ==
    \A i \in DOMAIN data : \A k \in DOMAIN data[i].bills :
        data[i].bills[k].billAmt <= data[i].bills[k].originalBillAmt

ActiveBills(p) == {k \in DOMAIN p.bills : p.bills[k].status \notin {"paid", "dispute"}}

\* C5: in every state, a party's balanceDebit is the sum of billAmt over its
\* bills that are neither paid nor dispute, and rawBalance is
\* balanceDebit - balanceCredit.
C5_DebitIsActiveSum ==
    \A i \in DOMAIN data :
        /\ data[i].balanceDebit =
              SumOver([k \in DOMAIN data[i].bills |-> data[i].bills[k].billAmt],
                      ActiveBills(data[i]))
        /\ data[i].rawBalance = data[i].balanceDebit - data[i].balanceCredit

\* C6: no session mutation (status change, partial payment, undo, phone
\* edit) changes a party's balanceCredit. (Every step from a loaded
\* collection is a session mutation.)
C6_CreditUntouched ==
    [][data # <<>> =>
          /\ DOMAIN data' = DOMAIN data
          /\ \A i \in DOMAIN data : data'[i].balanceCredit = data[i].balanceCredit]_vars

\* a party that kept credit from finalize had its phone number edited
C6_Witness ==
    \E i \in DOMAIN data : data[i].balanceCredit > 0 /\ data[i].phoneNumber = "97"

norm(status) == IF status = "none" THEN "unpaid" ELSE status

AllowedMove(a, b) ==
    \/ a = b
    \/ a = "unpaid" /\ b \in {"paid", "dispute"}
    \/ a \in {"paid", "dispute"} /\ b = "unpaid"

Payable ==
    {t \in (DOMAIN data) \X (1..MaxRows + 1) \X (PaymentAmounts \ {0}) :
        /\ t[2] \in filteredBills(data[t[1]])
        /\ isActive(data[t[1]].bills[t[2]])}

\* C8: a partial payment A on a bill with billAmt R: if A >= R, billAmt
\* becomes 0 and status paid; if A < R, billAmt becomes R - A and status
\* unpaid; manualAdjustment grows by A in both cases, whatever the status
\* the bill had.
C8_PartialPaymentBoundary ==
    \A t \in Payable :
        LET i == t[1]
            A == t[3]
            after == handlePartialPayment(data, data[i].id, data[i].bills[t[2]].billNo, A)
        IN  \A m \in DOMAIN data[i].bills :
                LET b == data[i].bills[m]
                    c == after[i].bills[m]
                IN  b.billNo = data[i].bills[t[2]].billNo =>
                       /\ c.manualAdjustment = b.manualAdjustment + A
                       /\ IF A >= b.billAmt
                          THEN c.billAmt = 0 /\ c.status = "paid"
                          ELSE c.billAmt = b.billAmt - A /\ c.status = "unpaid"

\* a payment settled a bill exactly (A = R), and a further payment can be
\* entered that will also be applied to a bill whose status is paid
C8_Witness ==
    \E i \in DOMAIN data :
        /\ \E k \in DOMAIN data[i].bills :
              /\ data[i].bills[k].status = "paid" /\ data[i].bills[k].billAmt = 0
              /\ data[i].bills[k].manualAdjustment = data[i].bills[k].originalBillAmt
        /\ \E t \in Payable : t[1] = i /\ \E m \in DOMAIN data[i].bills :
              /\ data[i].bills[m].billNo = data[i].bills[t[2]].billNo
              /\ data[i].bills[m].status = "paid"

\* C9: for a bill with billAmt R > 0 and manualAdjustment 0, a partial
\* payment A with 0 < A < R followed at once by its undo restores billAmt R,
\* manualAdjustment 0 and status unpaid, and the party's balanceDebit and
\* rawBalance as they were before the payment.
C9_PaymentRoundTrip ==
    \A t \in Payable :
        LET i == t[1]
            b == data[i].bills[t[2]]
            A == t[3]
            paid == handlePartialPayment(data, data[i].id, b.billNo, A)
            undone == handleUndoPartialPayment(paid, data[i].id, b.billNo)
        IN  (b.manualAdjustment = 0 /\ A < b.billAmt) =>
               /\ undone[i].bills[t[2]].billAmt = b.billAmt
               /\ undone[i].bills[t[2]].manualAdjustment = 0
               /\ undone[i].bills[t[2]].status = "unpaid"
               /\ undone[i].balanceDebit = data[i].balanceDebit
               /\ undone[i].rawBalance = data[i].rawBalance

\* C10: after one or two partial payments on a bill that had no recorded
\* payment (a payment may meet or exceed the outstanding amount), a single
\* undo, whenever the detail view offers it for that bill number, returns
\* billAmt to its value before the first payment and manualAdjustment to 0.
C10_UndoIsFullRevert ==
    \A t \in Payable : \A m \in DOMAIN data[t[1]].bills :
        LET i == t[1]
            no == data[i].bills[t[2]].billNo
            b == data[i].bills[m]
            once == handlePartialPayment(data, data[i].id, no, t[3])
            canUndo(d) == \E k \in partiallyPaidBills(d[i]) : d[i].bills[k].billNo = no
            reverts(d) ==
                canUndo(d) =>
                   LET undone == handleUndoPartialPayment(d, data[i].id, no)
                   IN  /\ undone[i].bills[m].billAmt = b.billAmt
                       /\ undone[i].bills[m].manualAdjustment = 0
        IN  (b.billNo = no /\ b.manualAdjustment = 0) =>
               /\ reverts(once)
               /\ \A k \in filteredBills(once[i]), A2 \in PaymentAmounts \ {0} :
                     (once[i].bills[k].billNo = no /\ isActive(once[i].bills[k]))
                        => reverts(handlePartialPayment(once, data[i].id, no, A2))

\* ---- properties of the classifier
\* the orderings of a table's entries
Orderings(table) ==
    {q \in [DOMAIN table -> {table[i] : i \in DOMAIN table}] :
        \A i, j \in DOMAIN q : i # j => q[i] # q[j]}

\* C11: classification does not depend on the iteration order of the prefix
\* table: every ordering of the table's entries gives the bill number on
\* screen the company it has.
C11_OrderIndependent ==
    \A q \in Orderings(prefixMap) :
        getCompanyNameFromBillNo(q, classified.billNo) = classified.company

\* the stages as the specification numbers them, for a bill number and a
\* prefix: 1 raw against raw, 2 star stripped from the bill number, 3 star
\* stripped from both, 4 alphanumeric characters only; 0 when none matches
Unstar(s) == IF s # <<>> /\ s[1] = "*" THEN SubSeq(s, 2, Len(s)) ELSE s

Stage(billNo, prefix) ==
    LET bill == Trim(toUpperCase(billNo))
        pre == Trim(toUpperCase(prefix))
        alnum(s) == SelectSeq(toUpperCase(s), LAMBDA c : c \in UpperAlnum)
    IN  IF startsWith(bill, pre) THEN 1
        ELSE IF startsWith(Unstar(bill), pre) THEN 2
        ELSE IF startsWith(Unstar(bill), Unstar(pre)) THEN 3
        ELSE IF alnum(prefix) # <<>> /\ startsWith(alnum(billNo), alnum(prefix)) THEN 4
        ELSE 0

\* the entries of the table that match the bill number at a stage
AtStage(table, billNo, n) == {i \in DOMAIN table : Stage(billNo, table[i].prefix) = n}

\* C12: the stages are tried in order over the whole table: the company
\* returned is that of a prefix matching at the earliest stage at which any
\* prefix of the table matches; so when a prefix matches the raw bill
\* number at stage 1, the company is that of a stage-1 prefix.
C12_LayeredPriority ==
    \A n \in 1..4 :
        (/\ classified.billNo # <<>>
         /\ AtStage(prefixMap, classified.billNo, n) # {}
         /\ \A m \in 1..(n - 1) : AtStage(prefixMap, classified.billNo, m) = {})
        => \E i \in AtStage(prefixMap, classified.billNo, n) :
              prefixMap[i].company = classified.company

\* C13: the fallback chain. A bill number that matches prefixes of the
\* table only with a leading star taken off is given the company of such a
\* prefix by the first loop; one that matches prefixes only with every
\* non-alphanumeric character removed is given the company of such a prefix
\* by the fallback loop, the first loop finding nothing; an empty bill
\* number, and one that matches at no stage, get null.
C13_FallbackChain ==
    LET billNo == classified.billNo
        upperBill == Trim(toUpperCase(billNo))
        star == AtStage(prefixMap, billNo, 2) \cup AtStage(prefixMap, billNo, 3)
        alnum == AtStage(prefixMap, billNo, 4)
    IN  /\ billNo = <<>> => classified.company = NoCompany
        /\ (billNo # <<>> /\ AtStage(prefixMap, billNo, 1) = {} /\ star # {}) =>
              /\ \E i \in star : prefixMap[i].company = classified.company
              /\ firstLoop(prefixMap, upperBill) = classified.company
        /\ (billNo # <<>> /\ AtStage(prefixMap, billNo, 1) = {} /\ star = {}
                /\ alnum # {}) =>
              /\ \E i \in alnum : prefixMap[i].company = classified.company
              /\ firstLoop(prefixMap, upperBill) = NoCompany
        /\ (\A n \in 1..4 : AtStage(prefixMap, billNo, n) = {}) =>
              classified.company = NoCompany

\* "*ABC/123" is on screen with company X through the star stages, and
\* "AB-C/123" gets X from the fallback loop only
C13_Witness ==
    /\ classified.billNo = BillStarABC
    /\ classified.company = "X"
    /\ AtStage(prefixMap, BillStarABC, 1) = {}
    /\ AtStage(prefixMap, BillABdashC, 4) # {}
    /\ firstLoop(prefixMap, Trim(toUpperCase(BillABdashC))) = NoCompany
    /\ getCompanyNameFromBillNo(prefixMap, BillABdashC) = "X"

Entries(table) == {table[i] : i \in DOMAIN table}

LoadedBills == {<<i, k>> \in (DOMAIN data) \X (1..MaxFilterRows) : k \in DOMAIN data[i].bills}

\* C15: a bill with billAmt <= 0 matches no filter: the dashboard filter,
\* the detail view filter, the export predicate and the company-wide
\* export filter all reject it, whatever the settings.
C15_NonPositiveNeverMatches ==
    \A t \in LoadedBills :
        LET b == data[t[1]].bills[t[2]] IN
        b.billAmt <= 0 =>
           /\ ~dashboardKeeps(prefixMap, b, filters)
           /\ ~detailKeeps(prefixMap, b, filters)
           /\ ~checkBillMatch(prefixMap, b, filters)
           /\ ~companyWideKeeps(prefixMap, b, filters)

\* C16: the consumers filter alike: the export predicate, the company-wide
\* export filter and the detail view's filtered-then-effective bills accept
\* exactly the same bills.
C16_SameFiltering ==
    \A t \in LoadedBills :
        LET b == data[t[1]].bills[t[2]]
            detail == detailKeeps(prefixMap, b, filters) /\ isActive(b)
        IN  /\ checkBillMatch(prefixMap, b, filters) <=> detail
            /\ companyWideKeeps(prefixMap, b, filters) <=> detail

\* the collection without its paid and disputed bills
withoutSettled(d) ==
    [i \in DOMAIN d |-> [d[i] EXCEPT !.bills = SelectSeq(@, LAMBDA b : isActive(b))]]

\* C17: bills marked paid or dispute are in no active aggregation: the
\* dashboard row's total and bill count, the aging and company-wise totals,
\* the detail view's net debit and the export totals are what they would
\* be without those bills.
C17_SettledExcluded ==
    LET active == withoutSettled(data) IN
    /\ \A i \in DOMAIN data :
          /\ visibleDebit(prefixMap, data[i], filters)
                = visibleDebit(prefixMap, active[i], filters)
          /\ Len(activeBills(prefixMap, data[i], filters))
                = Len(activeBills(prefixMap, active[i], filters))
          /\ filteredNetDebit(prefixMap, data[i], filters)
                = filteredNetDebit(prefixMap, active[i], filters)
          /\ exportActiveDebit(prefixMap, data[i], filters)
                = exportActiveDebit(prefixMap, active[i], filters)
          /\ companyDebitTotal(prefixMap, data[i], filters)
                = companyDebitTotal(prefixMap, active[i], filters)
    /\ agingAnalysis(data) = agingAnalysis(active)
    /\ \A company \in {"Johnson", "GSK", UNMAPPED_KEY} :
          companyWiseTotals(data, prefixMap, company)
             = companyWiseTotals(active, prefixMap, company)

\* the date rule, for a bill's day number and the two bounds
DateRule(bDate, f) ==
    LET from == getFilterTimestamp(f.from)
        to == getFilterTimestamp(f.to)
    IN  IF f.from = "" /\ f.to = "" THEN TRUE
        ELSE IF bDate = 0 THEN FALSE
        ELSE IF f.to = "" THEN bDate <= from
        ELSE IF f.from = "" THEN bDate <= to
        ELSE from <= bDate /\ bDate <= to

noDates(f) == [f EXCEPT !.from = "", !.to = ""]

\* C18: the date-range convention. With only from, or only to, set a bill
\* with a parsable date passes the date filter iff its date is on or before
\* the bound; with both iff from <= date <= to; a bill with an unparsable
\* date never passes when a bound is set; in the dashboard filter, the
\* detail view and the export predicate alike.
C18_DateRangeConvention ==
    \A t \in LoadedBills :
        LET b == data[t[1]].bills[t[2]]
            rule == DateRule(parseDate(b.billDate), filters)
        IN  /\ dashboardKeeps(prefixMap, b, filters)
                 <=> (dashboardKeeps(prefixMap, b, noDates(filters)) /\ rule)
            /\ detailKeeps(prefixMap, b, filters)
                 <=> (detailKeeps(prefixMap, b, noDates(filters)) /\ rule)
            /\ checkBillMatch(prefixMap, b, filters)
                 <=> (checkBillMatch(prefixMap, b, noDates(filters)) /\ rule)

\* only "to" is set: a bill dated on the bound is kept and a later one is
\* rejected by the three filters, for its date alone
C18_Witness ==
    /\ filters.from = "" /\ filters.to = "2024-01-01"
    /\ \E t \in LoadedBills :
          /\ parseDate(data[t[1]].bills[t[2]].billDate) = 1
          /\ checkBillMatch(prefixMap, data[t[1]].bills[t[2]], filters)
    /\ \E t \in LoadedBills :
          LET b == data[t[1]].bills[t[2]] IN
          /\ parseDate(b.billDate) > 1
          /\ checkBillMatch(prefixMap, b, noDates(filters))
          /\ ~checkBillMatch(prefixMap, b, filters)
          /\ ~dashboardKeeps(prefixMap, b, filters)
          /\ ~detailKeeps(prefixMap, b, filters)


\* the header rows of the uploaded file, in file order
headerRows == SelectSeq(file, LAMBDA r : Trim(r.partyName) # <<>>)

withoutPhones(d) == [i \in DOMAIN d |-> [d[i] EXCEPT !.phoneNumber = ""]]

\* C20: a failed external call never corrupts or rolls back the collection:
\* an upload whose contact sync failed leaves exactly the parse result, an
\* upload whose save failed leaves the parse result with at most the phone
\* numbers filled in, and a status change, payment or undo whose save failed
\* leaves the mutated collection
C20_FailedCallKeepsModel ==
    [][/\ (outcome'.handler = "handleFileSelect" /\ outcome'.sync = "error")
            => data' = processRawData(file')
       /\ (outcome'.handler = "handleFileSelect" /\ outcome'.sync = "success"
              /\ outcome'.save = "failed")
            => withoutPhones(data') = processRawData(file')
       /\ (outcome'.handler = "handleBillStatusChange" /\ outcome'.save = "failed")
            => /\ data' = handleBillStatusChange(data, outcome'.args[1],
                                                 outcome'.args[2], outcome'.args[3])
               /\ data' # data
       /\ (outcome'.handler = "handlePartialPayment" /\ outcome'.save = "failed")
            => /\ data' = handlePartialPayment(data, outcome'.args[1],
                                               outcome'.args[2], outcome'.args[3])
               /\ data' # data
       /\ (outcome'.handler = "handleUndoPartialPayment" /\ outcome'.save = "failed")
            => /\ data' = handleUndoPartialPayment(data, outcome'.args[1],
                                                   outcome'.args[2])
               /\ data' # data]_vars

\* the contact sync of the upload failed and the save after marking a bill
\* paid failed, and the bill is paid
C20_Witness ==
    /\ outcome.sync = "error"
    /\ outcome.handler = "handleBillStatusChange"
    /\ outcome.save = "failed"
    /\ outcome.args[3] = "paid"
    /\ \E i \in DOMAIN data : \E k \in DOMAIN data[i].bills :
          /\ data[i].id = outcome.args[1]
          /\ data[i].bills[k].billNo = outcome.args[2]
          /\ data[i].bills[k].status = "paid"


\* C21: a partial payment whose amount exceeds a bill's outstanding billAmt
\* is applied to it only after the user confirmed; when the confirmation is
\* declined or the amount is not a positive number, the party collection is
\* unchanged
C21_OverpaymentNeedsConfirmation ==
    [][outcome'.handler = "submitPayment" =>
          /\ outcome'.args[4] \in {"invalid", "declined"} => data' = data
          /\ data # <<>> =>
                \A i \in DOMAIN data : \A k \in DOMAIN data[i].bills :
                    (/\ data'[i].bills[k].manualAdjustment > data[i].bills[k].manualAdjustment
                     /\ outcome'.args[3] > data[i].bills[k].billAmt)
                       => outcome'.args[4] = "confirmed"]_vars


\* ---- FIFO settlement, stated on the bills finalizeParty was given
\* bill a comes before bill b in settlement order: earlier parsed date, or
\* the same parsed date and an earlier row
FifoBefore(bills, a, b) ==
    \/ parseDate(bills[a].billDate) < parseDate(bills[b].billDate)
    \/ parseDate(bills[a].billDate) = parseDate(bills[b].billDate) /\ a < b

FifoRank(bills, i) == Cardinality({a \in Positive(bills) : FifoBefore(bills, a, i)}) + 1

\* the positive bills in settlement order
Fifo(bills) ==
    [r \in 1..Cardinality(Positive(bills)) |->
        bills[CHOOSE i \in Positive(bills) : FifoRank(bills, i) = r]]

FromIndex(S, m) == IF m > Len(S) THEN <<>> ELSE SubSeq(S, m, Len(S))

FirstSum(S, n) == SumOver([k \in DOMAIN S |-> S[k].billAmt], 1..n)

\* C22: FIFO settlement order. With the positive bills taken in ascending
\* parsed-date order (ties by row order), the bills absorbed by credit are
\* a prefix of that order, at most the next bill is retained with its
\* amount reduced by the credit that remained, and every later bill is
\* retained with its amount unchanged.
C22_FifoSettlementOrder ==
    \A j \in DOMAIN parties :
        LET S == Fifo(fed[j])
            credit == TotalNegativeMagnitude(fed[j])
        IN  \E n \in 0..Len(S) :
               LET remaining == credit - FirstSum(S, n) IN
               /\ remaining >= 0
               /\ n < Len(S) => remaining < S[n + 1].billAmt
               /\ parties[j].bills =
                     IF n < Len(S)
                     THEN <<[S[n + 1] EXCEPT !.billAmt = @ - remaining]>>
                             \o FromIndex(S, n + 2)
                     ELSE <<>>

\* a bill without its amount
sameBill(b) == [b EXCEPT !.billAmt = 0]

\* C23: after finalize the bills list holds exactly the positive bills that
\* were not fully absorbed, in FIFO order, each with billAmt > 0: no
\* negative, zero-amount or fully absorbed bill is in it.
C23_OnlyUnabsorbedPositive ==
    \A j \in DOMAIN parties :
        LET S == Fifo(fed[j])
            credit == TotalNegativeMagnitude(fed[j])
            kept == parties[j].bills
            n == Len(S) - Len(kept)
        IN  /\ \A k \in DOMAIN kept : kept[k].billAmt > 0
            /\ n >= 0
            /\ [k \in DOMAIN kept |-> sameBill(kept[k])]
                   = [k \in DOMAIN kept |-> sameBill(S[n + k])]
            /\ FirstSum(S, n) <= credit
            /\ n < Len(S) => FirstSum(S, n + 1) > credit


\* C24: each retained detail row yields a bill whose billAmt and
\* originalBillAmt both equal round(cleanCurrency(Bill Amt.) -
\* cleanCurrency(Received)) at creation, before finalize runs.
C24_BothAmountsAtCreation ==
    [][(/\ currentParty # NoParty /\ currentParty' # NoParty
        /\ Len(currentParty'[1].bills) = Len(currentParty[1].bills) + 1)
          => LET row == rowsRead'[Len(rowsRead')]
                 b == currentParty'[1].bills[Len(currentParty'[1].bills)]
                 amount == round(cleanCurrency(row.billAmt) - cleanCurrency(row.received))
             IN  b.billAmt = amount /\ b.originalBillAmt = amount]_vars


\* ---- row grouping, stated on the rows read so far
\* the parties so far, the open one last, and the bills gathered for each
\* before finalize
partiesSoFar == parties \o currentParty
billsGathered == fed \o [k \in DOMAIN currentParty |-> currentParty[k].bills]

\* the positions of the rows that satisfy isHeader, ascending
HeaderPositions(isHeader(_)) ==
    LET H == {h \in DOMAIN rowsRead : isHeader(rowsRead[h])}
    IN  [r \in 1..Cardinality(H) |->
            CHOOSE h \in H : Cardinality({g \in H : g < h}) = r - 1]

\* a padding row: zero amount, no bill number, no bill date
isPadding(row) ==
    /\ cleanCurrency(row.billAmt) - cleanCurrency(row.received) = 0
    /\ Trim(row.billNo) = <<>>
    /\ TrimDate(row.billDate) = ""

\* the parties are the rows at positions hs, in order, and each has
\* gathered the non-padding rows up to the next of these positions
GroupedBy(hs) ==
    /\ Len(partiesSoFar) = Len(hs)
    /\ \A j \in DOMAIN hs :
          LET last == IF j < Len(hs) THEN hs[j + 1] - 1 ELSE Len(rowsRead)
              details == SelectSeq(SubSeq(rowsRead, hs[j] + 1, last),
                                   LAMBDA row : ~isPadding(row))
          IN  /\ partiesSoFar[j].id = hs[j] - 1
              /\ partiesSoFar[j].partyName = Trim(rowsRead[hs[j]].partyName)
              /\ Len(billsGathered[j]) = Len(details)
              /\ \A k \in DOMAIN details :
                    /\ billsGathered[j][k].billNo = Trim(details[k].billNo)
                    /\ billsGathered[j][k].originalBillAmt = cleanCurrency(details[k].billAmt)
                    /\ billsGathered[j][k].days = parseDays(details[k].days)

\* C25: row grouping. The parties are exactly the rows with a non-empty
\* Party Name, in input order; every non-padding detail row is attributed
\* to the nearest preceding header's party and to no other; detail rows
\* before the first header appear in no party.
C25_RowGrouping == GroupedBy(HeaderPositions(LAMBDA row : row.partyName # <<>>))

\* C25, amended: the same with a header being a row whose Party Name is
\* non-empty after trimming; a row whose Party Name holds only blanks is a
\* detail row.
C25_RowGroupingTrimmed == GroupedBy(HeaderPositions(LAMBDA row : Trim(row.partyName) # <<>>))

\* a parse that skipped a detail row before the first header, attributed a
\* row with a blank Party Name to the party before it, and emitted two
\* parties
C25_Witness ==
    /\ pc = "done"
    /\ Len(rowsRead) = MaxParseRows
    /\ Trim(rowsRead[1].partyName) = <<>> /\ ~isPadding(rowsRead[1])
    /\ Len(parties) = 2
    /\ \E h \in DOMAIN rowsRead :
          /\ rowsRead[h] = DetailBlankName
          /\ Len(fed[1]) = 1
          /\ fed[1][1].billNo = Y1


\* a bill as finalize left it: the fields no session mutation writes
asFinalized(b) == [billNo |-> b.billNo, billDate |-> b.billDate,
                   originalBillAmt |-> b.originalBillAmt, days |-> b.days]

\* C26: processRawData calls finalizeParty exactly once on each emitted
\* party, and no session operation calls it again: there are as many calls
\* as parties, and every party still has the credit and the bills, in
\* order, that the one call on its gathered bills left, whatever status
\* changes, payments, undos and phone edits followed.
C26_FinalizedOnce ==
    /\ Len(fed) = Len(data)
    /\ \A i \in DOMAIN data :
          LET once == finalizeParty([data[i] EXCEPT !.bills = fed[i]])
          IN  /\ data[i].balanceCredit = once.balanceCredit
              /\ [k \in DOMAIN data[i].bills |-> asFinalized(data[i].bills[k])]
                    = [k \in DOMAIN once.bills |-> asFinalized(once.bills[k])]

\* two parties were emitted, the phone number of one was edited and a bill
\* of one was settled by payments
C26_Witness ==
    /\ Len(fed) = 2 /\ Len(data) = 2
    /\ \E i \in DOMAIN data : data[i].phoneNumber = "97"
    /\ \E i \in DOMAIN data : \E k \in DOMAIN data[i].bills :
          /\ data[i].bills[k].billAmt = 0
          /\ data[i].bills[k].status = "paid"
          /\ data[i].bills[k].manualAdjustment > 0


\* the bills a step changed: party index and bill index
changedBills ==
    {t \in (DOMAIN data) \X (1..MaxRows + 1) :
        /\ t[2] \in DOMAIN data[t[1]].bills
        /\ data'[t[1]].bills[t[2]] # data[t[1]].bills[t[2]]}

\* C27: a session mutation aimed at one bill changes only that bill: a
\* status change, partial payment or undo leaves every other bill of the
\* party and every bill of every other party unchanged, also when bills of
\* the party share a bill number.
C27_OnlyTargetedBillChanges ==
    [][data # <<>> =>
          /\ DOMAIN data' = DOMAIN data
          /\ \A i \in DOMAIN data : DOMAIN data'[i].bills = DOMAIN data[i].bills
          /\ Cardinality(changedBills) <= 1]_vars


\* C28: the persisted state converges to the in-memory state: once every
\* pending save has completed, the party collection last written to cloud
\* storage equals the current collection.
C28_PersistedConverges == (data # <<>> /\ timers = {}) => cloud = data


\* C29: a party never has both outstanding debit and leftover credit: in
\* every state reached from finalize through session mutations,
\* balanceDebit > 0 and balanceCredit > 0 do not hold together, and a party
\* with leftover credit has no bill left.
C29_NeverDebitAndCredit ==
    \A i \in DOMAIN data :
        /\ ~(data[i].balanceDebit > 0 /\ data[i].balanceCredit > 0)
        /\ data[i].balanceCredit > 0 => data[i].bills = <<>>

\* a bill that credit had reduced took a payment that was then undone, and
\* its party has debit outstanding
C29_Witness ==
    \E i \in DOMAIN data :
        /\ TotalNegativeMagnitude(fed[i]) > 0
        /\ data[i].balanceDebit > 0
        /\ \E k \in DOMAIN data[i].bills :
              /\ data[i].bills[k].billAmt < data[i].bills[k].originalBillAmt
              /\ data[i].bills[k].manualAdjustment = 0
              /\ data[i].bills[k].status = "unpaid"


\* C30: a recorded partial payment can always be undone from the party
\* detail view: in every state each bill with manualAdjustment > 0, a bill
\* settled by a payment (billAmt 0, status paid) included, is listed among
\* the partially paid bills, where the undo button is.
C30_UndoAlwaysAvailable ==
    \A i \in DOMAIN data : \A k \in DOMAIN data[i].bills :
        data[i].bills[k].manualAdjustment > 0 => k \in partiallyPaidBills(data[i])

====
